---------------------------- MODULE Spec2Model ----------------------------
(***************************************************************************)
(* Model of quant_helper's simulation core: TransactionCostModel           *)
(* (costs.py), Backtester (backtest.py) and PerformanceAnalyzer            *)
(* (performance.py).                                                       *)
(*                                                                         *)
(* Numbers are exact rationals <<n, d>> in lowest terms with d > 0; the    *)
(* pair <<0, 0>> stands for pandas' NaN (a missing entry).  A pandas       *)
(* Series over the price index is a sequence indexed 1..n, so timestamp t  *)
(* of the source (0-based) is index t + 1 here.                            *)
(***************************************************************************)
EXTENDS Integers, Sequences, FiniteSets, TLC

VARIABLES
    initial_capital,  \* Backtester._initial_capital
    cost_model,       \* Backtester._cost_model (or the model cost_series is called on)
    results,          \* Backtester._results
    last,             \* the most recent call: its arguments and its outcome
    lastok,           \* history: what the most recent successful run returned
    prevok            \* history: what the successful run before that returned

vars == <<initial_capital, cost_model, results, last, lastok, prevok>>

-----------------------------------------------------------------------------
(* The bound of the model. *)

\* The longest price history of a run.
MaxLen == 3

-----------------------------------------------------------------------------
(* Exact rational arithmetic standing for the floats of the source. *)

NaN == <<0, 0>>

Abs(i) == IF i < 0 THEN -i ELSE i

RECURSIVE GCD(_, _)
GCD(a, b) == IF b = 0 THEN a ELSE GCD(b, a % b)

Norm(n, d) ==
    IF d = 0 THEN NaN
    ELSE LET g == GCD(Abs(n), Abs(d))
             s == IF d < 0 THEN -1 ELSE 1
         IN  <<(s * n) \div g, (s * d) \div g>>

Rat(i) == <<i, 1>>

Zero == Rat(0)

One == Rat(1)

IsNaN(x) == x[2] = 0

RAdd(x, y) ==
    IF IsNaN(x) \/ IsNaN(y) THEN NaN
    ELSE LET g == GCD(x[2], y[2])
         IN  Norm(x[1] * (y[2] \div g) + y[1] * (x[2] \div g), (x[2] \div g) * y[2])

RNeg(x) == <<-x[1], x[2]>>

RSub(x, y) == RAdd(x, RNeg(y))

RMul(x, y) ==
    IF IsNaN(x) \/ IsNaN(y) THEN NaN
    ELSE LET g1 == GCD(Abs(x[1]), y[2])
             g2 == GCD(Abs(y[1]), x[2])
         IN  <<(x[1] \div g1) * (y[1] \div g2), (x[2] \div g2) * (y[2] \div g1)>>

\* Division; the divisors of the model (prices, initial capital) are never 0.
RDiv(x, y) ==
    IF IsNaN(x) \/ IsNaN(y) \/ y[1] = 0 THEN NaN
    ELSE RMul(x, Norm(y[2], y[1]))

RAbs(x) == <<Abs(x[1]), x[2]>>

RLe(x, y) ==
    LET g == GCD(x[2], y[2])
    IN  x[1] * (y[2] \div g) <= y[1] * (x[2] \div g)

RLt(x, y) == RLe(x, y) /\ x # y

RMax(x, y) == IF RLe(x, y) THEN y ELSE x

-----------------------------------------------------------------------------
(* pandas Series operations used by the source. *)

\* A series as a tuple of its entries (the same function, evaluated once).
Series(f) == <<>> \o f

\* Faulty variant: the change is taken relative to the current entry.
pct_change_on_current(s) ==
    Series([i \in 1..Len(s) |-> IF i = 1 THEN NaN ELSE RSub(One, RDiv(s[i - 1], s[i]))])

pct_change(s) ==
    Series([i \in 1..Len(s) |-> IF i = 1 THEN NaN ELSE RSub(RDiv(s[i], s[i - 1]), One)])

\* Faulty variant: the positions are not shifted (position(t) earns return(t)).
shift_none(s) == s

shift(s) == Series([i \in 1..Len(s) |-> IF i = 1 THEN NaN ELSE s[i - 1]])

diff(s) == Series([i \in 1..Len(s) |-> IF i = 1 THEN NaN ELSE RSub(s[i], s[i - 1])])

fillna(s, v) == Series([i \in 1..Len(s) |-> IF IsNaN(s[i]) THEN v ELSE s[i]])

fillna_series(s, o) ==
    Series([i \in 1..Len(s) |-> IF IsNaN(s[i]) THEN o[i] ELSE s[i]])

RECURSIVE CumSumFrom(_, _)
CumSumFrom(s, acc) ==
    IF Len(acc) = Len(s) THEN acc
    ELSE LET i == Len(acc) + 1
         IN  CumSumFrom(s, Append(acc, IF i = 1 THEN s[1] ELSE RAdd(acc[i - 1], s[i])))

cumsum(s) == CumSumFrom(s, <<>>)

RECURSIVE CumProdFrom(_, _)
CumProdFrom(s, acc) ==
    IF Len(acc) = Len(s) THEN acc
    ELSE LET i == Len(acc) + 1
         IN  CumProdFrom(s, Append(acc, IF i = 1 THEN s[1] ELSE RMul(acc[i - 1], s[i])))

\* Faulty variant: growth factors accumulate by addition (1 + the sum of the returns).
cumprod_additive(s) ==
    Series([i \in 1..Len(s) |-> RSub(CumSumFrom(s, <<>>)[i], Rat(i - 1))])

cumprod(s) == CumProdFrom(s, <<>>)


SetMax(S) == CHOOSE m \in S : \A x \in S : x <= m

\* Faulty variant: reindex without a fill method (only the labels raw has).
reindex_exact(raw, n) ==
    Series([t \in 1..n |-> IF t \in DOMAIN raw THEN raw[t] ELSE NaN])

\* Series.reindex(index, method='ffill'): raw is a series over some labels
\* (DOMAIN raw); each label t of the new index takes the entry of the last
\* label of raw at or before t, and NaN when there is none.
reindex_ffill(raw, n) ==
    Series([t \in 1..n |-> LET prev == {s \in DOMAIN raw : s <= t}
                           IN  IF prev = {} THEN NaN ELSE raw[SetMax(prev)]])

-----------------------------------------------------------------------------
(* costs.py: TransactionCostModel *)

\* Faulty variant: the sum of the two rates, not floored at zero.
rate_unclamped(cm) == RAdd(cm.commission, cm.slippage)

rate(cm) == RMax(RAdd(cm.commission, cm.slippage), Zero)

\* Faulty variant: the cost is charged on the position held, not on its change.
cost_series_on_level(cm, positions, prices) ==
    LET r == rate(cm)
    IN  Series([i \in 1..Len(positions) |-> RMul(RMul(RAbs(positions[i]), prices[i]), r)])

\* Faulty variant: the first period's trade is taken as zero (diff().fillna(0)).
cost_series_no_entry(cm, positions, prices) ==
    LET trades == fillna(diff(positions), Zero)
        r == rate(cm)
    IN  Series([i \in 1..Len(positions) |-> RMul(RMul(RAbs(trades[i]), prices[i]), r)])

cost_series(cm, positions, prices) ==
    LET trades == fillna_series(diff(positions), positions)
        r == rate(cm)
    IN  Series([i \in 1..Len(positions) |-> RMul(RMul(RAbs(trades[i]), prices[i]), r)])

-----------------------------------------------------------------------------
(* backtest.py: Backtester *)

NoCostModel == [kind |-> "None"]

NoResult == [kind |-> "None"]

\* Faulty variant: the costs are added to the returns.
deduct_costs_added(returns, costs, ic) ==
    Series([i \in 1..Len(returns) |-> RAdd(returns[i], RDiv(costs[i], ic))])

\* Faulty variant: the costs are charged one period after the trade.
deduct_costs_shifted(returns, costs, ic) ==
    Series([i \in 1..Len(returns) |->
               RSub(returns[i], RDiv(IF i = 1 THEN Zero ELSE costs[i - 1], ic))])

\* strategy_returns -= costs / self._initial_capital
deduct_costs(returns, costs, ic) ==
    Series([i \in 1..Len(returns) |-> RSub(returns[i], RDiv(costs[i], ic))])

calculate_portfolio_values(ic, cm, prices, positions) ==
    LET price_returns == fillna(pct_change(prices), Zero)
        shifted_positions == fillna(shift(positions), Zero)
        gross == Series([i \in 1..Len(prices) |->
                             RMul(shifted_positions[i], price_returns[i])])
        costs == IF cm # NoCostModel THEN cost_series(cm, positions, prices)
                 ELSE Series([i \in 1..Len(prices) |-> Zero])
        strategy_returns == IF cm # NoCostModel THEN deduct_costs(gross, costs, ic)
                            ELSE gross
        growth == cumprod(Series([i \in 1..Len(prices) |-> RAdd(One, strategy_returns[i])]))
    IN  [values |-> Series([i \in 1..Len(prices) |-> RMul(ic, growth[i])]),
         cumulative_costs |-> cumsum(costs)]

\* Faulty variant: the prices are normalised by the last price (prices.iloc[-1]).
calculate_buy_and_hold_by_last(ic, prices) ==
    Series([i \in 1..Len(prices) |-> RMul(ic, RDiv(prices[i], prices[Len(prices)]))])

calculate_buy_and_hold(ic, prices) ==
    Series([i \in 1..Len(prices) |-> RMul(ic, RDiv(prices[i], prices[1]))])

(* performance.py: PerformanceAnalyzer *)

calculate_total_return(prices) ==
    IF Len(prices) < 2 THEN Zero
    ELSE RDiv(RSub(prices[Len(prices)], prices[1]), prices[1])

\* A float that may hold a square root: coef * sqrt(rad), both exact rationals
\* (rad >= 0).  Any zero is <<0, 1>> * sqrt(1) and any NaN is NaN * sqrt(NaN).
Surd(c, r) ==
    IF IsNaN(c) \/ IsNaN(r) THEN [coef |-> NaN, rad |-> NaN]
    ELSE IF c = Zero \/ r = Zero THEN [coef |-> Zero, rad |-> One]
    ELSE [coef |-> c, rad |-> r]

SZero == Surd(Zero, One)

SIsNaN(x) == IsNaN(x.coef)

\* np.sqrt
sqrt(x) == Surd(One, x)

SMul(x, y) == Surd(RMul(x.coef, y.coef), RMul(x.rad, y.rad))

\* q / (c * sqrt(r)) = (q / (c * r)) * sqrt(r)
RDivSurd(q, x) == Surd(RDiv(q, RMul(x.coef, x.rad)), x.rad)

RECURSIVE SumFrom(_, _)
SumFrom(s, i) == IF i > Len(s) THEN Zero ELSE RAdd(s[i], SumFrom(s, i + 1))

\* Series.dropna()
dropna(s) == SelectSeq(s, LAMBDA x : ~IsNaN(x))

\* Series.mean(): NaN for an empty series.
mean(s) == RDiv(SumFrom(s, 1), Rat(Len(s)))

\* The sample variance (ddof = 1): NaN for fewer than two entries.
var(s) ==
    LET m == mean(s)
        sq == Series([i \in 1..Len(s) |-> RMul(RSub(s[i], m), RSub(s[i], m))])
    IN  IF Len(s) < 2 THEN NaN ELSE RDiv(SumFrom(sq, 1), Rat(Len(s) - 1))

\* Series.std(): sqrt of the sample variance.
std(s) == sqrt(var(s))

\* Series.min() and Series.max(): NaN entries are skipped; NaN when none is left.
SeriesMin(s) ==
    LET d == dropna(s)
    IN  IF Len(d) = 0 THEN NaN
        ELSE d[CHOOSE i \in 1..Len(d) : \A j \in 1..Len(d) : RLe(d[i], d[j])]

SeriesMax(s) ==
    LET d == dropna(s)
    IN  IF Len(d) = 0 THEN NaN
        ELSE d[CHOOSE i \in 1..Len(d) : \A j \in 1..Len(d) : RLe(d[j], d[i])]

RECURSIVE ExpandingMaxFrom(_, _)
ExpandingMaxFrom(s, acc) ==
    IF Len(acc) = Len(s) THEN acc
    ELSE LET i == Len(acc) + 1
         IN  ExpandingMaxFrom(s, Append(acc, IF i = 1 THEN s[1] ELSE RMax(acc[i - 1], s[i])))

\* Faulty variant: the maximum of the whole series at every entry (Series.max()).
expanding_max_whole(s) == Series([i \in 1..Len(s) |-> SeriesMax(s)])

\* Series.expanding().max()
expanding_max(s) == ExpandingMaxFrom(s, <<>>)

PeriodsPerYear == 365

DefaultRiskFreeRate == Zero

calculate_daily_returns(prices) ==
    IF Len(prices) = 0 THEN <<>> ELSE dropna(pct_change(prices))

calculate_sharpe_ratio(returns, risk_free_rate, periods_per_year) ==
    IF Len(returns) = 0 \/ std(returns) = SZero THEN SZero
    ELSE LET mean_return == RMul(mean(returns), Rat(periods_per_year))
             std_return == SMul(std(returns), sqrt(Rat(periods_per_year)))
         IN  RDivSurd(RSub(mean_return, risk_free_rate), std_return)

calculate_max_drawdown(prices) ==
    IF Len(prices) = 0 THEN Zero
    ELSE LET running_max == expanding_max(prices)
             drawdown == Series([i \in 1..Len(prices) |->
                                    RDiv(RSub(prices[i], running_max[i]), running_max[i])])
         IN  SeriesMin(drawdown)

calculate_volatility(returns, periods_per_year) ==
    IF Len(returns) = 0 THEN SZero
    ELSE SMul(std(returns), sqrt(Rat(periods_per_year)))

calculate_win_rate(returns) ==
    IF Len(returns) = 0 THEN Zero
    ELSE LET profitable_periods ==
                 Cardinality({i \in 1..Len(returns) :
                                 ~IsNaN(returns[i]) /\ RLt(Zero, returns[i])})
         IN  Norm(profitable_periods, Len(returns))

NoReturns == [kind |-> "None"]

GivenReturns(s) == [kind |-> "Series", series |-> s]

generate_performance_summary(prices, returns_arg, risk_free_rate) ==
    LET returns == IF returns_arg.kind = "None" THEN calculate_daily_returns(prices)
                   ELSE returns_arg.series
    IN  [total_return |-> calculate_total_return(prices),
         sharpe_ratio |-> calculate_sharpe_ratio(returns, risk_free_rate, PeriodsPerYear),
         max_drawdown |-> calculate_max_drawdown(prices),
         volatility |-> calculate_volatility(returns, PeriodsPerYear),
         win_rate |-> calculate_win_rate(returns),
         avg_daily_return |-> mean(returns),
         best_day |-> SeriesMax(returns),
         worst_day |-> SeriesMin(returns),
         total_trades |-> Len(returns)]

\* positions.reindex(prices_df.index, method='ffill').fillna(0.0)
align(raw, n) == fillna(reindex_ffill(raw, n), Zero)

\* The dictionary run_strategy builds and stores (the identifiers and dates
\* left out; of the two metric summaries, the total return).
build_results(ic, cm, prices, raw) ==
    LET positions == align(raw, Len(prices))
        pv == calculate_portfolio_values(ic, cm, prices, positions)
    IN  [kind |-> "dict",
         initial_capital |-> ic,
         final_value |-> pv.values[Len(prices)],
         portfolio_values |-> pv.values,
         benchmark_values |-> calculate_buy_and_hold(ic, prices),
         positions |-> positions,
         prices |-> prices,
         transaction_costs |-> pv.cumulative_costs,
         strategy_metrics |-> [total_return |-> calculate_total_return(pv.values)],
         benchmark_metrics |->
             [total_return |->
                 calculate_total_return(calculate_buy_and_hold(ic, prices))]]


-----------------------------------------------------------------------------
(* Inputs. *)

CostModel(c, s) == [kind |-> "TransactionCostModel", commission |-> c, slippage |-> s]

PriceValues == {Rat(1), Rat(2), Rat(3)}

PosValues == {Rat(-1), Zero, One}

PriceSeries == UNION {[1..n -> PriceValues] : n \in 1..MaxLen}

\* What a strategy may return for a price index 1..n: a position at every
\* timestamp (the same index) ...
FullPositions(n) == [1..n -> PosValues]

\* ... or positions at some of the timestamps (a coarser index), possibly none.
RawPositions(n) == UNION {[D -> PosValues] : D \in SUBSET (1..n)}

\* The scenario of the documentation: capital 1000, combined rate 0.01.
ScenarioCapital == Rat(1000)

ScenarioCostModel == CostModel(Norm(1, 200), Norm(1, 200))

ScenarioPrices == <<Rat(100), Rat(110), Rat(99), Rat(99), Rat(108)>>

ScenarioRaw == {[t \in 1..5 |-> One], [t \in 1..5 |-> IF t = 1 THEN Zero ELSE One],
                [t \in {2} |-> One]}

SmallCapital == Rat(2)

SmallCostModel == CostModel(Norm(1, 8), Norm(1, 8))

\* Backtester(...) as constructed here: with or without a cost model.
Configs ==
    {[initial_capital |-> SmallCapital, cost_model |-> NoCostModel],
     [initial_capital |-> SmallCapital, cost_model |-> SmallCostModel]}

ScenarioConfigs ==
    {[initial_capital |-> ScenarioCapital, cost_model |-> NoCostModel],
     [initial_capital |-> ScenarioCapital, cost_model |-> ScenarioCostModel]}

\* The price histories fetch_prices returns to this instance.
Histories == IF initial_capital = ScenarioCapital THEN {ScenarioPrices} ELSE PriceSeries

Strategies(prices) ==
    IF initial_capital = ScenarioCapital THEN ScenarioRaw ELSE FullPositions(Len(prices))

FetchErrors == {"ValueError", "RequestException"}

NoArgs == [kind |-> "None"]

-----------------------------------------------------------------------------
(* The state machine: one Backtester instance and its caller. *)

Call(op, args, outcome, exc, value, n) ==
    [op |-> op, args |-> args, outcome |-> outcome, exc |-> exc, value |-> value,
     strategy_calls |-> n]

Constructed(configs) ==
    /\ \E c \in configs :
          /\ initial_capital = c.initial_capital
          /\ cost_model = c.cost_model
    /\ results = NoResult
    /\ lastok = NoResult
    /\ prevok = NoResult
    /\ last = Call("init", NoArgs, "return", "", NoResult, 0)

Init == Constructed(Configs)

\* The same, with the documentation's scenario among the instances.
InitScenario == Constructed(Configs \cup ScenarioConfigs)

\* Backtester(initial_capital=...) with any number as the capital: __init__
\* stores the argument as it is given.  (A capital of 0 together with a cost
\* model divides the costs by 0.0, which yields an infinity the rationals do
\* not have; that combination is left out.)
AnyCapitalConfigs ==
    Configs \cup
    {[initial_capital |-> Rat(-2), cost_model |-> NoCostModel],
     [initial_capital |-> Rat(-2), cost_model |-> SmallCostModel],
     [initial_capital |-> Zero, cost_model |-> NoCostModel]}

InitAnyCapital == Constructed(AnyCapitalConfigs)

\* run_strategy: fetch_prices raises; nothing else happens.
RunFetchFails(e) ==
    /\ last' = Call("run_strategy", NoArgs, "raise", e, NoResult, 0)
    /\ UNCHANGED <<initial_capital, cost_model, results, lastok, prevok>>

\* Faulty variant: the strategy is called before the frame is checked.
RunEmpty_after_strategy ==
    /\ last' = Call("run_strategy", [prices |-> <<>>], "raise", "ValueError", NoResult, 1)
    /\ UNCHANGED <<initial_capital, cost_model, results, lastok, prevok>>

\* run_strategy: the fetched frame is empty.
RunEmpty ==
    /\ last' = Call("run_strategy", [prices |-> <<>>], "raise", "ValueError", NoResult, 0)
    /\ UNCHANGED <<initial_capital, cost_model, results, lastok, prevok>>

\* Faulty variant: the slot is cleared when the run starts, so a failure leaves it empty.
RunStrategyRaises_clearing ==
    /\ last' = Call("run_strategy", NoArgs, "raise", "StrategyError", NoResult, 1)
    /\ results' = NoResult
    /\ UNCHANGED <<initial_capital, cost_model, lastok, prevok>>

\* run_strategy: the strategy function raises; the exception propagates.
RunStrategyRaises ==
    /\ last' = Call("run_strategy", NoArgs, "raise", "StrategyError", NoResult, 1)
    /\ UNCHANGED <<initial_capital, cost_model, results, lastok, prevok>>

\* Faulty variant: the result slot is written only while it is empty.
RunOk_keep_first(prices, raw) ==
    \E r \in {build_results(initial_capital, cost_model, prices, raw)} :
        /\ results' = IF results = NoResult THEN r ELSE results
        /\ lastok' = r
        /\ prevok' = lastok
        /\ last' = Call("run_strategy", [prices |-> prices, raw |-> raw], "return", "", r, 1)
        /\ UNCHANGED <<initial_capital, cost_model>>

\* run_strategy: a complete run.
RunOk(prices, raw) ==
    \E r \in {build_results(initial_capital, cost_model, prices, raw)} :
        /\ results' = r
        /\ lastok' = r
        /\ prevok' = lastok
        /\ last' = Call("run_strategy", [prices |-> prices, raw |-> raw], "return", "", r, 1)
        /\ UNCHANGED <<initial_capital, cost_model>>

GetResults ==
    /\ last' = IF results = NoResult
               THEN Call("get_results", NoArgs, "raise", "RuntimeError", NoResult, 0)
               ELSE Call("get_results", NoArgs, "return", "", results, 0)
    /\ UNCHANGED <<initial_capital, cost_model, results, lastok, prevok>>

\* A caller that runs one backtest on a fresh instance and reads the result.
Next ==
    \/ /\ results = NoResult
       /\ \E prices \in Histories : \E raw \in Strategies(prices) : RunOk(prices, raw)
    \/ GetResults

Spec == Init /\ [][Next]_vars

SpecScenario == InitScenario /\ [][Next]_vars

\* The same caller on an instance constructed with any capital.
SpecAnyCapital == InitAnyCapital /\ [][Next]_vars

\* The same caller with strategies that decide on a coarser index.
NextAlign ==
    \/ /\ results = NoResult
       /\ \E prices \in PriceSeries : \E raw \in RawPositions(Len(prices)) : RunOk(prices, raw)
    \/ GetResults

SpecAlign == Init /\ [][NextAlign]_vars

\* Any sequence of run_strategy and get_results calls on one instance, over a
\* few histories and the strategies that hold one position throughout.
LifecycleHistories ==
    {<<Rat(1)>>, <<Rat(1), Rat(3)>>, <<Rat(3), Rat(1), Rat(2)>>, <<Rat(2), Rat(2)>>}

NextLifecycle ==
    \/ \E e \in FetchErrors : RunFetchFails(e)
    \/ RunEmpty
    \/ RunStrategyRaises
    \/ \E prices \in LifecycleHistories : \E v \in PosValues :
          RunOk(prices, [t \in 1..Len(prices) |-> v])
    \/ GetResults

SpecLifecycle == Init /\ [][NextLifecycle]_vars

\* TransactionCostModel on its own: cost_series called on any positions and
\* prices over one index.
CostRates == {Norm(-1, 4), Zero, Norm(1, 200), Norm(1, 8)}

InitCost ==
    /\ initial_capital = SmallCapital
    /\ \E c \in CostRates : \E sl \in CostRates \ {Norm(-1, 4)} :
          cost_model = CostModel(c, sl)
    /\ results = NoResult
    /\ lastok = NoResult
    /\ prevok = NoResult
    /\ last = Call("init", NoArgs, "return", "", NoResult, 0)

CostSeriesCall(positions, prices) ==
    /\ last' = Call("cost_series", [positions |-> positions, prices |-> prices], "return", "",
                    cost_series(cost_model, positions, prices), 0)
    /\ UNCHANGED <<initial_capital, cost_model, results, lastok, prevok>>

NextCost ==
    /\ last.op = "init"
    /\ \E n \in 1..MaxLen : \E positions \in [1..n -> PosValues] : \E prices \in [1..n -> PriceValues] :
          CostSeriesCall(positions, prices)

SpecCost == InitCost /\ [][NextCost]_vars

\* PerformanceAnalyzer on its own: one of its methods called on a value series
\* or a return series (possibly empty).
ValueSeries == UNION {[1..n -> PriceValues] : n \in 0..MaxLen}

ReturnValues == {Norm(-1, 2), Zero, Norm(1, 2)}

ReturnSeries == UNION {[1..n -> ReturnValues] : n \in 0..MaxLen}

RiskFreeRates == {DefaultRiskFreeRate, Norm(1, 20)}

PerfCall(op, args, value) ==
    /\ last' = Call(op, args, "return", "", value, 0)
    /\ UNCHANGED <<initial_capital, cost_model, results, lastok, prevok>>

DailyReturnsCall(prices) ==
    PerfCall("calculate_daily_returns", [prices |-> prices], calculate_daily_returns(prices))

SharpeRatioCall(returns, rf) ==
    PerfCall("calculate_sharpe_ratio", [returns |-> returns, risk_free_rate |-> rf],
             calculate_sharpe_ratio(returns, rf, PeriodsPerYear))

MaxDrawdownCall(prices) ==
    PerfCall("calculate_max_drawdown", [prices |-> prices], calculate_max_drawdown(prices))

VolatilityCall(returns) ==
    PerfCall("calculate_volatility", [returns |-> returns],
             calculate_volatility(returns, PeriodsPerYear))

TotalReturnCall(prices) ==
    PerfCall("calculate_total_return", [prices |-> prices], calculate_total_return(prices))

WinRateCall(returns) ==
    PerfCall("calculate_win_rate", [returns |-> returns], calculate_win_rate(returns))

\* generate_performance_summary(prices) or, as run_strategy calls it,
\* generate_performance_summary(prices, calculate_daily_returns(prices)).
SummaryCall(prices, returns_arg) ==
    PerfCall("generate_performance_summary", [prices |-> prices, returns |-> returns_arg],
             generate_performance_summary(prices, returns_arg, DefaultRiskFreeRate))

NextPerf ==
    /\ last.op = "init"
    /\ \/ \E prices \in ValueSeries : DailyReturnsCall(prices)
       \/ \E returns \in ReturnSeries : \E rf \in RiskFreeRates : SharpeRatioCall(returns, rf)
       \/ \E prices \in ValueSeries : MaxDrawdownCall(prices)
       \/ \E returns \in ReturnSeries : VolatilityCall(returns)
       \/ \E prices \in ValueSeries : TotalReturnCall(prices)
       \/ \E returns \in ReturnSeries : WinRateCall(returns)
       \/ \E prices \in ValueSeries :
             \E returns_arg \in {NoReturns, GivenReturns(calculate_daily_returns(prices))} :
                SummaryCall(prices, returns_arg)

SpecPerf == Init /\ [][NextPerf]_vars

(* Properties of a completed run. *)

\* The last call was a run_strategy that returned its result.
Ran == last.op = "run_strategy" /\ last.outcome = "return"

Costed == cost_model # NoCostModel /\ rate(cost_model) # Zero

PV(prices, positions) ==
    calculate_portfolio_values(initial_capital, cost_model, prices, positions).values

SetAt(s, j, v) == [s EXCEPT ![j] = v]

\* Two value series realize the same return at index t (t >= 2), where the
\* return v[t] / v[t-1] - 1 is defined in both.
SameReturn(v, w, t) ==
    (v[t - 1] # Zero /\ w[t - 1] # Zero) => RDiv(v[t], v[t - 1]) = RDiv(w[t], w[t - 1])

\* C1 as claimed: portfolio_value(t) is the same in any two runs that differ
\* only in position(t), in a later position or in a later price, with or
\* without a cost model.
C1_NoLookaheadAsClaimed ==
    Ran =>
        LET r == last.value
            n == Len(r.prices)
        IN  /\ \A j \in 1..n : \A v \in PosValues :
                  LET w == PV(r.prices, SetAt(r.positions, j, v))
                  IN  \A t \in 1..j : w[t] = r.portfolio_values[t]
            /\ \A j \in 1..n : \A p \in PriceValues :
                  LET w == PV(SetAt(r.prices, j, p), r.positions)
                  IN  \A t \in 1..(j - 1) : w[t] = r.portfolio_values[t]

\* C1 (amended): portfolio_value(t) never depends on a position or a price
\* later than t, and the return realized at t does not depend on a position
\* or a price other than those at t-1 and t; without a cost model (or with
\* rate 0) it does not depend on position(t) either, so two runs that differ
\* only in position(t) have the same portfolio_value(t).
C1_NoLookahead ==
    Ran =>
        LET r == last.value
            n == Len(r.prices)
        IN  /\ \A j \in 1..n : \A v \in PosValues \ {r.positions[j]} :
                  LET w == PV(r.prices, SetAt(r.positions, j, v))
                  IN  \A t \in 1..n :
                        /\ t < j => w[t] = r.portfolio_values[t]
                        /\ (t = j /\ ~Costed) => w[t] = r.portfolio_values[t]
                        /\ (t >= 2 /\ j # t - 1 /\ j # t) =>
                              SameReturn(w, r.portfolio_values, t)
            /\ \A j \in 1..n : \A p \in PriceValues \ {r.prices[j]} :
                  LET w == PV(SetAt(r.prices, j, p), r.positions)
                  IN  \A t \in 1..n :
                        /\ t < j => w[t] = r.portfolio_values[t]
                        /\ (t >= 2 /\ j # t - 1 /\ j # t) =>
                              SameReturn(w, r.portfolio_values, t)

\* A run without a cost model whose position changes and whose value moves.
C1_Witness ==
    /\ Ran
    /\ cost_model = NoCostModel
    /\ Len(last.value.prices) >= 3
    /\ last.value.positions[2] # last.value.positions[1]
    /\ last.value.prices[2] # last.value.prices[1]
    /\ last.value.portfolio_values[2] # last.value.portfolio_values[1]
    /\ last.value.portfolio_values[3] # last.value.portfolio_values[2]


PVNoCost(prices, positions) ==
    calculate_portfolio_values(initial_capital, NoCostModel, prices, positions).values

\* C2 as claimed: the portfolio value at the first timestamp of every run
\* equals initial_capital, with or without a cost model.
C2_FirstValueAsClaimed == Ran => last.value.portfolio_values[1] = initial_capital

\* C2 (amended): the portfolio value at the first timestamp equals
\* initial_capital when no cost model is configured (or its rate is 0, or the
\* first position is flat); with a cost model it is initial_capital less the
\* cost of entering the first position, |position(0)| * price(0) * rate.
C2_FirstValue ==
    Ran =>
        LET r == last.value
        IN  /\ (~Costed \/ r.positions[1] = Zero) => r.portfolio_values[1] = initial_capital
            /\ Costed =>
                  r.portfolio_values[1] =
                      RSub(initial_capital,
                           RMul(RMul(RAbs(r.positions[1]), r.prices[1]), rate(cost_model)))

\* A costed run that enters a position at the first timestamp.
C2_Witness ==
    /\ Ran
    /\ Costed
    /\ last.value.positions[1] # Zero
    /\ RLt(last.value.portfolio_values[1], initial_capital)

\* C3 as claimed: with a cost model of rate > 0 the final portfolio value is
\* never greater than that of the same run without a cost model.
C3_CostMonotoneAsClaimed ==
    (Ran /\ Costed) =>
        LET r == last.value
            n == Len(r.prices)
        IN  RLe(r.final_value, PVNoCost(r.prices, r.positions)[n])

\* C3 (amended): with a cost model of rate > 0 the final portfolio value is
\* never greater than that of the same run without a cost model, provided the
\* costed run's portfolio value stays strictly positive at every timestamp.
C3_CostMonotone ==
    (Ran /\ Costed) =>
        LET r == last.value
            n == Len(r.prices)
        IN  (\A t \in 1..n : RLt(Zero, r.portfolio_values[t])) =>
                RLe(r.final_value, PVNoCost(r.prices, r.positions)[n])

\* A costed run that stays positive and ends strictly below the cost-free run.
C3_Witness ==
    /\ Ran
    /\ Costed
    /\ Len(last.value.prices) >= 2
    /\ \A t \in DOMAIN last.value.prices : RLt(Zero, last.value.portfolio_values[t])
    /\ last.value.positions[2] # last.value.positions[1]
    /\ RLt(last.value.final_value,
           PVNoCost(last.value.prices, last.value.positions)[Len(last.value.prices)])


-----------------------------------------------------------------------------
(* The documentation's scenario and the cost deduction. *)

ScenarioRun == Ran /\ initial_capital = ScenarioCapital /\ last.value.prices = ScenarioPrices

\* C4: with a constant position of 1.0 and no cost model, portfolio_value(t)
\* equals benchmark_value(t) at every timestamp; on the scenario's prices with
\* capital 1000 the values are [1000, 1100, 990, 990, 1080] and total_return
\* is 0.08.
C4_Compounding ==
    (Ran /\ cost_model = NoCostModel /\ \A t \in DOMAIN last.value.positions :
                                           last.value.positions[t] = One) =>
        LET r == last.value
        IN  /\ \A t \in DOMAIN r.prices : r.portfolio_values[t] = r.benchmark_values[t]
            /\ ScenarioRun =>
                  /\ r.portfolio_values =
                         <<Rat(1000), Rat(1100), Rat(990), Rat(990), Rat(1080)>>
                  /\ r.strategy_metrics.total_return = Norm(8, 100)

\* The scenario's cost-free run with the constant long position.
C4_Witness ==
    /\ ScenarioRun
    /\ cost_model = NoCostModel
    /\ \A t \in DOMAIN last.value.positions : last.value.positions[t] = One
    /\ last.value.final_value = Rat(1080)

\* The position held into index t, and the trade made at index t.
HeldInto(positions, t) == IF t = 1 THEN Zero ELSE positions[t - 1]

PriceReturn(prices, t) == IF t = 1 THEN Zero ELSE RSub(RDiv(prices[t], prices[t - 1]), One)

TradeCost(cm, positions, prices, t) ==
    RMul(RMul(RAbs(RSub(positions[t], HeldInto(positions, t))), prices[t]),
         IF RLe(Zero, RAdd(cm.commission, cm.slippage))
         THEN RAdd(cm.commission, cm.slippage) ELSE Zero)

\* C5: with a cost model, portfolio_value(t) = portfolio_value(t-1) *
\* (1 + position(t-1) * price_return(t) - cost(t) / initial_capital), starting
\* from initial_capital, where cost(t) is the cost of the position change at t
\* itself; the cumulative-cost series is the running sum of cost(0..t).  In
\* the scenario (positions [0,1,1,1,1], rate 0.01, capital 1000) the
\* cumulative cost at period 1 is 1.10 and portfolio_value(1) is below the
\* cost-free run's by 1.10/1000 of it.
C5_CostInPeriod ==
    (Ran /\ cost_model # NoCostModel) =>
        LET r == last.value
            cost(t) == TradeCost(cost_model, r.positions, r.prices, t)
        IN  /\ \A t \in DOMAIN r.prices :
                  /\ r.portfolio_values[t] =
                        RMul(IF t = 1 THEN initial_capital ELSE r.portfolio_values[t - 1],
                             RSub(RAdd(One, RMul(HeldInto(r.positions, t),
                                                 PriceReturn(r.prices, t))),
                                  RDiv(cost(t), initial_capital)))
                  /\ r.transaction_costs[t] =
                        RAdd(IF t = 1 THEN Zero ELSE r.transaction_costs[t - 1], cost(t))
            /\ (ScenarioRun /\ r.positions = <<Zero, One, One, One, One>>) =>
                  LET free == PVNoCost(r.prices, r.positions)
                  IN  /\ r.transaction_costs[2] = Norm(110, 100)
                      /\ RDiv(RSub(free[2], r.portfolio_values[2]), free[2]) =
                             RDiv(Norm(110, 100), Rat(1000))

\* The scenario's costed run: flat, then long from period 1.
C5_Witness ==
    /\ ScenarioRun
    /\ cost_model = ScenarioCostModel
    /\ last.value.positions = <<Zero, One, One, One, One>>
    /\ last.value.transaction_costs[5] = Norm(110, 100)
    /\ RLt(last.value.portfolio_values[2], Rat(1000))

-----------------------------------------------------------------------------
(* The cost model on its own. *)

CostCall == last.op = "cost_series"

\* C6: cost(0) = |position(0)| * price(0) * rate and, for t >= 1,
\* cost(t) = |position(t) - position(t-1)| * price(t) * rate, where
\* rate = max(commission + slippage, 0); so no cost is negative.
C6_CostFormula ==
    CostCall =>
        LET a == last.args
        IN  /\ Len(last.value) = Len(a.positions)
            /\ \A t \in DOMAIN a.positions :
                  /\ last.value[t] = TradeCost(cost_model, a.positions, a.prices, t)
                  /\ RLe(Zero, last.value[t])

\* A model whose rates sum below zero, called on a position that is entered
\* and then changed.
C6_Witness ==
    /\ CostCall
    /\ RLt(RAdd(cost_model.commission, cost_model.slippage), Zero)
    /\ Len(last.args.positions) >= 2
    /\ last.args.positions[1] # Zero
    /\ last.args.positions[2] # last.args.positions[1]
    /\ last.value[2] = Zero

\* C7: for a position series that never changes, cost(t) = 0 at every period
\* t >= 1; only the first period may carry a cost.
C7_ZeroTradeCost ==
    (CostCall /\ \A t \in DOMAIN last.args.positions :
                     last.args.positions[t] = last.args.positions[1]) =>
        \A t \in DOMAIN last.args.positions : t >= 2 => last.value[t] = Zero

\* A constant non-flat position under a positive rate: a cost at entry only.
C7_Witness ==
    /\ CostCall
    /\ Len(last.args.positions) >= 3
    /\ last.args.positions[1] # Zero
    /\ \A t \in DOMAIN last.args.positions : last.args.positions[t] = last.args.positions[1]
    /\ RLt(Zero, last.value[1])
    /\ last.value[3] = Zero


-----------------------------------------------------------------------------
(* The result slot and the error conditions. *)

\* What get_results answered matches the runs that succeeded before it.
GetMatchesRuns ==
    last.op = "get_results" =>
        IF lastok = NoResult
        THEN last.outcome = "raise" /\ last.exc = "RuntimeError"
        ELSE last.outcome = "return" /\ last.value = lastok

\* C8: get_results fails with the no-result error while no run has succeeded,
\* and afterwards returns exactly the result of the most recent successful
\* run; a successful run replaces the held result, and the slot never returns
\* to the uninitialized state.
C8_ResultSlot ==
    /\ [](GetMatchesRuns /\ results = lastok)
    /\ [][results # NoResult => results' # NoResult]_vars

\* get_results after a second successful run whose result differs from the
\* first's: it returns the second.
C8_Witness ==
    /\ last.op = "get_results"
    /\ last.outcome = "return"
    /\ prevok # NoResult
    /\ prevok # lastok
    /\ last.value = lastok

EmptyRun == last.op = "run_strategy" /\ last.args = [prices |-> <<>>]

\* C9: a run whose price history is empty fails with the empty-data error,
\* which is not the error get_results raises before any run, and the strategy
\* is not called in that run.
C9_EmptyData ==
    /\ EmptyRun =>
          /\ last.outcome = "raise"
          /\ last.exc = "ValueError"
          /\ last.strategy_calls = 0
    /\ (last.op = "get_results" /\ last.outcome = "raise") => last.exc # "ValueError"

\* An empty run on an instance that holds no result yet.
C9_Witness == EmptyRun /\ last.outcome = "raise" /\ results = NoResult

-----------------------------------------------------------------------------
(* Alignment. *)

\* The timestamps at or before t at which the strategy emitted a position.
EmittedBy(raw, t) == {s \in DOMAIN raw : s <= t}

\* C10: after alignment every timestamp of the price index has a non-null
\* position: the strategy's most recent emitted position at or before it, and
\* 0 before the strategy's first emitted position.
C10_Alignment ==
    Ran =>
        LET r == last.value
            raw == last.args.raw
        IN  /\ DOMAIN r.positions = DOMAIN r.prices
            /\ \A t \in DOMAIN r.prices :
                  /\ ~IsNaN(r.positions[t])
                  /\ EmittedBy(raw, t) = {} => r.positions[t] = Zero
                  /\ \A s \in EmittedBy(raw, t) :
                        (\A u \in EmittedBy(raw, t) : u <= s) => r.positions[t] = raw[s]

\* A strategy that first decides at the second of three timestamps.
C10_Witness ==
    /\ Ran
    /\ Len(last.value.prices) = 3
    /\ DOMAIN last.args.raw = {2}
    /\ last.args.raw[2] # Zero
    /\ last.value.positions = <<Zero, last.args.raw[2], last.args.raw[2]>>

-----------------------------------------------------------------------------
(* The metrics on degenerate inputs. *)

PerfReturned(op) == last.op = op /\ last.outcome = "return"

\* The five metrics of a summary are all defined numbers.
SummaryDefined(m) ==
    /\ ~IsNaN(m.total_return)
    /\ ~SIsNaN(m.sharpe_ratio)
    /\ ~IsNaN(m.max_drawdown)
    /\ ~SIsNaN(m.volatility)
    /\ ~IsNaN(m.win_rate)

\* C11: on a single-data-point series (a value series of one point, or the
\* one-element return series derived from a two-point value series) every
\* metric - total_return, sharpe_ratio, max_drawdown, volatility, win_rate -
\* is a defined real number, never NaN.
C11_SingleDataPoint ==
    /\ PerfReturned("generate_performance_summary") /\ Len(last.args.prices) \in {1, 2}
          => SummaryDefined(last.value)
    /\ PerfReturned("calculate_sharpe_ratio") /\ Len(last.args.returns) = 1
          => ~SIsNaN(last.value)
    /\ PerfReturned("calculate_volatility") /\ Len(last.args.returns) = 1
          => ~SIsNaN(last.value)
    /\ PerfReturned("calculate_win_rate") /\ Len(last.args.returns) = 1
          => ~IsNaN(last.value)
    /\ PerfReturned("calculate_max_drawdown") /\ Len(last.args.prices) = 1
          => ~IsNaN(last.value)
    /\ PerfReturned("calculate_total_return") /\ Len(last.args.prices) = 1
          => ~IsNaN(last.value)

AllEqual(s) == \A i, j \in 1..Len(s) : s[i] = s[j]

NonDecreasing(s) == \A i \in 1..Len(s) - 1 : RLe(s[i], s[i + 1])

\* C12: sharpe_ratio of any non-empty return series whose elements are all
\* equal is exactly 0.0; win_rate and volatility of an empty return series are
\* exactly 0.0; max_drawdown of a monotonically increasing value series is
\* exactly 0.0.
C12_Degenerate ==
    /\ PerfReturned("calculate_sharpe_ratio")
          /\ Len(last.args.returns) > 0 /\ AllEqual(last.args.returns)
          => last.value = SZero
    /\ PerfReturned("calculate_win_rate") /\ Len(last.args.returns) = 0
          => last.value = Zero
    /\ PerfReturned("calculate_volatility") /\ Len(last.args.returns) = 0
          => last.value = SZero
    /\ PerfReturned("calculate_max_drawdown") /\ NonDecreasing(last.args.prices)
          => last.value = Zero

-----------------------------------------------------------------------------
(* The benchmark. *)

\* C13: in every run on a non-empty price history the benchmark value at t is
\* initial_capital * price(t) / price(0), its first value is initial_capital,
\* and the instance gets the same benchmark with and without a cost model.
C13_Benchmark ==
    Ran =>
        LET r == last.value
            n == Len(r.prices)
        IN  /\ Len(r.benchmark_values) = n
            /\ \A t \in 1..n :
                  r.benchmark_values[t] =
                      RDiv(RMul(initial_capital, r.prices[t]), r.prices[1])
            /\ r.benchmark_values[1] = initial_capital
            /\ \A c \in Configs :
                  c.initial_capital = initial_capital =>
                      build_results(c.initial_capital, c.cost_model,
                                    last.args.prices, last.args.raw).benchmark_values
                          = r.benchmark_values

\* A costed run that paid costs, on prices that end away from where they began.
C13_Witness ==
    /\ Ran /\ Costed
    /\ Len(last.value.prices) >= 2
    /\ last.value.transaction_costs[Len(last.value.prices)] # Zero
    /\ last.value.benchmark_values[Len(last.value.prices)] # initial_capital

-----------------------------------------------------------------------------
(* The configuration. *)

\* C14: initial_capital is validated to be strictly positive: an instance
\* with initial_capital <= 0 is rejected at construction or when it is run,
\* so no run of such an instance returns or stores a result.
C14_CapitalValidated ==
    (Ran \/ results # NoResult) => RLt(Zero, initial_capital)

-----------------------------------------------------------------------------
(* The sign of the portfolio values. *)

\* C15 as claimed: every entry of the portfolio value series is strictly
\* positive, for positive prices, positions in [-1, 1], a positive capital and
\* non-negative rates.
C15_PositiveAsClaimed ==
    Ran => \A t \in DOMAIN last.value.portfolio_values :
               RLt(Zero, last.value.portfolio_values[t])

\* A short position is held into period k while the price at least doubles.
ShortSqueezed(r, k) ==
    /\ RLt(HeldInto(r.positions, k), Zero)
    /\ RLe(One, PriceReturn(r.prices, k))

\* A transaction cost is charged in period k.
CostCharged(r, k) ==
    Costed /\ TradeCost(cost_model, r.positions, r.prices, k) # Zero

\* Up to t no period squeezed a short position and none charged a cost.
Unharmed(r, t) == \A k \in 1..t : ~ShortSqueezed(r, k) /\ ~CostCharged(r, k)

\* C15 (amended): portfolio_value(t) is strictly positive unless, in some
\* period up to t, a short position was held while the price at least doubled
\* or a transaction cost was charged.
C15_Positive ==
    Ran => \A t \in DOMAIN last.value.portfolio_values :
               Unharmed(last.value, t) => RLt(Zero, last.value.portfolio_values[t])

\* A run that held a short position through a price rise short of doubling,
\* lost money on it and stayed positive.
C15_Witness ==
    /\ Ran
    /\ LET r == last.value
           n == Len(r.prices)
       IN  /\ n >= 2
           /\ Unharmed(r, n)
           /\ \E k \in 2..n : /\ r.positions[k - 1] = Rat(-1)
                              /\ RLt(Zero, PriceReturn(r.prices, k))
           /\ RLt(r.portfolio_values[n], initial_capital)

-----------------------------------------------------------------------------
(* The maximum drawdown. *)

\* The maximum of value(0..t), as a member of the values seen so far.
RunningMax(v, t) == CHOOSE m \in {v[k] : k \in 1..t} : \A k \in 1..t : RLe(v[k], m)

DrawdownAt(v, t) == RDiv(RSub(v[t], RunningMax(v, t)), RunningMax(v, t))

-----------------------------------------------------------------------------
(* Failed runs. *)

FailedRun == last.op = "run_strategy" /\ last.outcome = "raise"

\* C17: a run_strategy call that fails (the fetch raises, the history is
\* empty, or the strategy raises, whose own exception is what the caller
\* gets) leaves the held result exactly as it was before the call, absent or
\* the previous successful run's; what get_results returns is always the
\* complete result a successful run returned.
C17_FailedRunFrame ==
    /\ [][FailedRun' => results' = results /\ lastok' = lastok]_vars
    /\ [](FailedRun /\ last.strategy_calls = 1 => last.exc = "StrategyError")
    /\ [](FailedRun /\ last.exc = "StrategyError" => last.strategy_calls = 1)
    /\ [](last.op = "get_results" /\ last.outcome = "return" =>
              last.value = lastok /\ lastok.kind = "dict")

\* The strategy raised on an instance that holds the result of an earlier run.
C17_Witness ==
    /\ FailedRun
    /\ last.exc = "StrategyError"
    /\ results # NoResult
    /\ results = lastok

=============================================================================
